---------------------------- MODULE Spec2Model ----------------------------
(***************************************************************************)
(* A model of the layer manager of terminusdb-layer-service                *)
(* (src/src/manager.rs) and of the part of the HTTP service that drives    *)
(* it (src/src/server.rs).                                                 *)
(*                                                                         *)
(* The filesystem is one map from canonical paths to file contents plus a  *)
(* set of directories.  A rename moves the whole file atomically; a copy   *)
(* writes its destination piece by piece.  Requests and promotion tasks    *)
(* interleave at every await of the source.                                *)
(***************************************************************************)
EXTENDS Integers, Sequences, FiniteSets, Bags, TLC

(***************************************************************************)
(* Bounds of the model.                                                    *)
(***************************************************************************)
NumReq == 2        \* request handlers that can run concurrently
MaxOps == 2        \* requests started over a whole run
CopyChunk == 3     \* bytes one write of fs::copy moves

(***************************************************************************)
(* Layer names.  A name is rendered as a sequence of hex digits            *)
(* (name_to_string); the model uses four digits instead of forty.  Every   *)
(* path component is a sequence of characters.                             *)
(***************************************************************************)
L1 == <<"a", "b", "c", "1">>
L2 == <<"a", "b", "d", "2">>
Layers == {L1, L2}

PrefixLen == 3

\* The content of a path that holds no file (no byte is negative).
NoFile == <<-1>>

(***************************************************************************)
(* Archives.  An archive starts with a header: one byte holding the set of *)
(* sub-files present (bit i-1 for tag i), then one length byte for every   *)
(* present sub-file in tag order.  The sub-files follow the header, in the *)
(* same order.                                                             *)
(***************************************************************************)
Tags == {1, 2}

ArchA == <<3, 1, 2, 50, 51, 52>>   \* tag 1: 1 byte, tag 2: 2 bytes
ArchB == <<2, 2, 60, 61>>          \* tag 2 only: 2 bytes
ArchC == <<1, 3, 70>>              \* tag 1 declared 3 bytes, body cut short
ArchD == <<3, 9>>                  \* header cut short

\* The bodies a client POSTs, each as the chunks its stream yields.
Bodies == { << <<3, 1, 2>>, <<50, 51, 52>> >>,
            << <<2, 2, 60, 61>> >> }

RECURSIVE Flatten(_)
Flatten(chunks) ==
  IF chunks = <<>> THEN <<>> ELSE Head(chunks) \o Flatten(Tail(chunks))

\* Every complete layer of the model: what a full upload or a spooled file holds.
FullLayers == {ArchA, ArchB, ArchC, ArchD}

Min(a, b) == IF a < b THEN a ELSE b

HasBit(mask, tag) == (mask \div (2 ^ (tag - 1))) % 2 = 1

\* The tags below `tag` that the mask holds.
Before(mask, tag) == {t \in Tags : t < tag /\ HasBit(mask, t)}

Present(mask) == {t \in Tags : HasBit(mask, t)}

\* ArchiveHeader::parse_from_reader: a failure (ok = FALSE), or the header and
\* the position of the reader after it.
ParseHeader(bytes) ==
  LET mask == IF bytes = <<>> THEN 0 ELSE bytes[1]
      n == Cardinality(Present(mask))
  IN IF bytes = <<>> \/ Len(bytes) < 1 + n
     THEN [ok |-> FALSE, mask |-> 0, lens |-> <<>>, pos |-> 0]
     ELSE [ok |-> TRUE,
           mask |-> mask,
           lens |-> [t \in Present(mask) |->
                       bytes[1 + Cardinality(Before(mask, t)) + 1]],
           pos |-> 1 + n]

RECURSIVE SumLens(_, _)
SumLens(lens, S) ==
  IF S = {} THEN 0
  ELSE LET t == CHOOSE x \in S : TRUE IN lens[t] + SumLens(lens, S \ {t})

\* ArchiveHeader::range_for: the half-open range of a sub-file, measured from
\* the end of the header; None (some = FALSE) when the header does not hold it.
range_for(header, tag) ==
  IF ~HasBit(header.mask, tag) THEN [some |-> FALSE, start |-> 0, end |-> 0]
  ELSE LET start == SumLens(header.lens, Before(header.mask, tag))
       IN [some |-> TRUE, start |-> start, end |-> start + header.lens[tag]]

(***************************************************************************)
(* Paths.  A canonical path is the sequence of its components from the     *)
(* root.                                                                   *)
(***************************************************************************)
primary_path == << <<"primary">> >>
local_path == << <<"local">> >>
upload_path == << <<"upload">> >>
scratch_path == << <<"scratch">> >>

name_to_string(layer) == layer

primary_layer_file_path(layer) ==
  primary_path \o <<SubSeq(name_to_string(layer), 1, PrefixLen)>>
               \o <<name_to_string(layer)>>

local_layer_file_path(layer) ==
  local_path \o <<SubSeq(name_to_string(layer), 1, PrefixLen)>>
             \o <<name_to_string(layer)>>

\* The copy goes straight to the local tier.
scratch_is_local(layer) == local_layer_file_path(layer)

scratch_layer_file_path(layer) ==
  scratch_path \o <<name_to_string(layer)>>

\* Path::parent of a canonical path.
DirOf(path) == SubSeq(path, 1, Len(path) - 1)

(***************************************************************************)
(* The directory tree around the four roots.  /lnk is a symlink to the     *)
(* upload root, /upload/esc a symlink that leaves it.                      *)
(***************************************************************************)
Root == <<>>
EtcDir == << <<"etc">> >>
SubDir == upload_path \o << <<"sub">> >>
DotDot == <<"..">>

StaticDirs == {Root, primary_path, local_path, upload_path, scratch_path,
               EtcDir, SubDir}

Symlinks == [l \in {<< <<"lnk">> >>, upload_path \o << <<"esc">> >>} |->
               IF l = << <<"lnk">> >> THEN upload_path ELSE EtcDir]

\* Files an upstream component has spooled, and a file that is none of ours.
SpoolX1 == upload_path \o << <<"x1">> >>
SpoolX2 == SubDir \o << <<"x2">> >>
Passwd == EtcDir \o << <<"passwd">> >>
PasswdBytes == <<7, 7>>

\* The name the temp-file facility generates for the upload of handler r.
TempNames == <<"tmp1", "tmp2", "tmp3", "tmp4">>
TempPath(r) == upload_path \o << <<TempNames[r]>> >>

Reqs == 1..NumReq

FilePaths ==
  {primary_layer_file_path(n) : n \in Layers}
    \cup {local_layer_file_path(n) : n \in Layers}
    \cup {scratch_layer_file_path(n) : n \in Layers}
    \cup {TempPath(r) : r \in Reqs}
    \cup {SpoolX1, SpoolX2, Passwd}

\* A path as a caller writes it: absolute or relative, components in order,
\* ".." and symlinks not yet resolved.
Raw(abs, comps) == [abs |-> abs, comps |-> comps]

\* Path::parent: the path without its last component; none for "/" and "".
HasParent(p) == p.comps # <<>>
Parent(p) == Raw(p.abs, DirOf(p.comps))

\* Resolution of the components `comps` from the directory `cur`, as the kernel
\* does it: ".." steps up, a symlink is followed, anything else must exist.
RECURSIVE Walk(_, _, _, _)
Walk(cur, comps, D, F) ==
  IF comps = <<>> THEN [ok |-> TRUE, path |-> cur]
  ELSE LET c == Head(comps)
           next == Append(cur, c)
       IN IF c = DotDot THEN Walk(DirOf(cur), Tail(comps), D, F)
          ELSE IF next \in DOMAIN Symlinks
                 THEN Walk(Symlinks[next], Tail(comps), D, F)
          ELSE IF next \in D THEN Walk(next, Tail(comps), D, F)
          ELSE IF next \in DOMAIN F /\ F[next] # NoFile /\ Tail(comps) = <<>>
                 THEN [ok |-> TRUE, path |-> next]
          ELSE [ok |-> FALSE, path |-> <<>>]

\* fs::canonicalize.  The empty path cannot be canonicalized; the working
\* directory is the root.
canonicalize(p, D, F) ==
  IF ~p.abs /\ p.comps = <<>> THEN [ok |-> FALSE, path |-> <<>>]
  ELSE Walk(Root, p.comps, D, F)

\* The file a rename takes as its source: the parent is resolved, the last
\* component is not followed and must name a file.
ResolveFile(p, D, F) ==
  IF p.comps = <<>> \/ p.comps[Len(p.comps)] = DotDot
  THEN [ok |-> FALSE, path |-> <<>>]
  ELSE LET dir == Walk(Root, DirOf(p.comps), D, F)
           file == Append(dir.path, p.comps[Len(p.comps)])
       IN IF dir.ok /\ file \in DOMAIN F /\ F[file] # NoFile
          THEN [ok |-> TRUE, path |-> file]
          ELSE [ok |-> FALSE, path |-> <<>>]

\* The paths move_uploaded_outside_layer is called with.
UP == <<"upload">>
Candidates ==
  { Raw(TRUE, <<UP, <<"x1">>>>),                     \* /upload/x1
    Raw(TRUE, <<UP, DotDot, UP, <<"x1">>>>),         \* /upload/../upload/x1
    Raw(TRUE, <<<<"lnk">>, <<"x1">>>>),              \* /lnk/x1
    Raw(TRUE, <<UP, <<"missing">>>>),                \* /upload/missing
    Raw(TRUE, <<UP, DotDot>>),                       \* /upload/..
    Raw(TRUE, <<<<"etc">>, <<"passwd">>>>),          \* /etc/passwd
    Raw(TRUE, <<UP, DotDot, <<"etc">>, <<"passwd">>>>), \* /upload/../etc/passwd
    Raw(TRUE, <<UP, <<"esc">>, <<"passwd">>>>),      \* /upload/esc/passwd
    Raw(TRUE, <<UP, <<"sub">>, <<"x2">>>>),          \* /upload/sub/x2
    Raw(TRUE, <<UP>>),                               \* /upload
    Raw(TRUE, <<<<"nodir">>, <<"x1">>>>),            \* /nodir/x1
    Raw(FALSE, <<<<"x1">>>>),                        \* x1
    Raw(TRUE, <<>>) }                                \* /

(***************************************************************************)
(* State.                                                                  *)
(***************************************************************************)
VARIABLES
  fs,        \* canonical path -> bytes of the file there, or NoFile
  dirs,      \* the fan-out directories created so far
  work_set,  \* LayerManager.work_set
  lock,      \* <<>>, or <<n>>: the task holding the work_set mutex, for layer n
  tasks,     \* bag of the spawned try_copy_layer tasks outside the mutex
  req,       \* request handler -> the call it is running
  resp,      \* the answer a call is returning at this moment (or the failed
             \* existence check of a task: CheckFailed), or Idle
  ops,       \* requests started so far
  renames,   \* layer -> renames scratch -> local done so far
  scheduled  \* layers a primary hit or a move into primary has spawned a
             \* promotion for

vars == <<fs, dirs, work_set, lock, tasks, req, resp, ops, renames, scheduled>>

Dirs == StaticDirs \cup dirs

Exists(path) == fs[path] # NoFile

Idle == [op |-> "idle", pc |-> "idle", layer |-> L1, tag |-> 0, body |-> <<>>,
         path |-> Raw(TRUE, <<>>), size |-> 0, data |-> <<>>,
         kind |-> "pending", why |-> "", out |-> <<>>, lo |-> 0, hi |-> 0]

Init ==
  /\ fs = [p \in FilePaths |->
             IF p = primary_layer_file_path(L1) THEN ArchA
             ELSE IF p = SpoolX1 THEN ArchB
             ELSE IF p = SpoolX2 THEN ArchA
             ELSE IF p = Passwd THEN PasswdBytes
             ELSE NoFile]
  /\ dirs = {DirOf(primary_layer_file_path(L1))}
  /\ work_set = {}
  /\ lock = <<>>
  /\ tasks = EmptyBag
  /\ req = [r \in Reqs |-> Idle]
  /\ resp = Idle
  /\ ops = 0
  /\ renames = [n \in Layers |-> 0]
  /\ scheduled = {}

(***************************************************************************)
(* try_copy_layer.  A task is [layer, pc, src]: pc is the await it is at,  *)
(* src the bytes of the source file fs::copy has opened.                   *)
(***************************************************************************)
Task(n, pc, src) == [layer |-> n, pc |-> pc, src |-> src]

\* tokio::spawn(try_copy_layer(manager, layer))
Spawned(n, k) == SetToBag({Task(n, "start", <<>>)}) (+)
                 (IF k = 2 THEN SetToBag({Task(n, "start", <<>>)}) ELSE EmptyBag)

Step(t, pc, src) == (tasks (-) SetToBag({t})) (+) SetToBag({Task(t.layer, pc, src)})

\* The existence check looks at the scratch path.
scratch_layer_file_exists(n) == Exists(scratch_layer_file_path(n))

\* local_layer_file_exists, when try_exists answers
local_layer_file_exists(n) == Exists(local_layer_file_path(n))

\* Admit without the look into the work set.
AdmitUnchecked(t) ==
  /\ t.pc = "start"
  /\ lock = <<>>
  /\ tasks' = tasks (-) SetToBag({t})
  /\ lock' = <<t.layer>>
  /\ resp' = Idle
  /\ UNCHANGED <<fs, dirs, work_set, req, ops, renames, scheduled>>

\* work_set.lock().await; work_set.contains(&layer)
Admit(t) ==
  /\ t.pc = "start"
  /\ lock = <<>>
  /\ tasks' = tasks (-) SetToBag({t})
  /\ lock' = IF t.layer \in work_set THEN <<>> ELSE <<t.layer>>
  /\ resp' = Idle
  /\ UNCHANGED <<fs, dirs, work_set, req, ops, renames, scheduled>>

TaskLock == \E t \in BagToSet(tasks) : Admit(t)

\* The guard of the mutex lives on after the insert: the task goes on to copy
\* while it holds the mutex.
TaskExistsHolds ==
  /\ lock # <<>>
  /\ lock[1] \notin work_set
  /\ LET n == lock[1]
     IN IF local_layer_file_exists(n)
        THEN /\ lock' = <<>>
             /\ UNCHANGED <<work_set, tasks>>
        ELSE /\ work_set' = work_set \cup {n}
             /\ tasks' = tasks (+) SetToBag({Task(n, "copy", <<>>)})
             /\ lock' = lock
  /\ resp' = Idle
  /\ UNCHANGED <<fs, dirs, req, ops, renames, scheduled>>

\* The answer of the existence check is not looked at: always insert.
TaskExistsIgnored ==
  /\ lock # <<>>
  /\ work_set' = work_set \cup {lock[1]}
  /\ tasks' = tasks (+) SetToBag({Task(lock[1], "copy", <<>>)})
  /\ lock' = <<>>
  /\ resp' = Idle
  /\ UNCHANGED <<fs, dirs, req, ops, renames, scheduled>>

\* The existence check answers: return, or insert and leave the critical region.
TaskExists ==
  /\ lock # <<>>
  /\ LET n == lock[1]
     IN IF local_layer_file_exists(n)
        THEN UNCHANGED <<work_set, tasks>>
        ELSE /\ work_set' = work_set \cup {n}
             /\ tasks' = tasks (+) SetToBag({Task(n, "copy", <<>>)})
  /\ lock' = <<>>
  /\ resp' = Idle
  /\ UNCHANGED <<fs, dirs, req, ops, renames, scheduled>>

\* What resp shows for the one moment in which the existence check of a task
\* of layer n has failed.
CheckFailed(n) ==
  [Idle EXCEPT !.op = "try_copy_layer", !.pc = "ret", !.layer = n,
               !.kind = "err", !.why = "try_exists"]

\* The existence check fails and the failure is taken for "does not exist".
TaskExistsErrInserts ==
  /\ lock # <<>>
  /\ work_set' = work_set \cup {lock[1]}
  /\ tasks' = tasks (+) SetToBag({Task(lock[1], "copy", <<>>)})
  /\ lock' = <<>>
  /\ resp' = CheckFailed(lock[1])
  /\ UNCHANGED <<fs, dirs, req, ops, renames, scheduled>>

\* The existence check fails: unwrap_or(true)
TaskExistsErr ==
  /\ lock # <<>>
  /\ lock' = <<>>
  /\ resp' = CheckFailed(lock[1])
  /\ UNCHANGED <<fs, dirs, work_set, tasks, req, ops, renames, scheduled>>

\* fs::copy opens its source and creates (or truncates) its destination.
CopyOpen(t) ==
  /\ t.pc = "copy"
  /\ LET from == primary_layer_file_path(t.layer)
         to == scratch_layer_file_path(t.layer)
     IN IF Exists(from)
        THEN /\ fs' = [fs EXCEPT ![to] = <<>>]
             /\ tasks' = Step(t, "copying", fs[from])
        ELSE /\ tasks' = Step(t, "release", <<>>)
             /\ UNCHANGED fs
  /\ resp' = Idle
  /\ UNCHANGED <<dirs, work_set, lock, req, ops, renames, scheduled>>

TaskCopyOpen == \E t \in BagToSet(tasks) : CopyOpen(t)

\* fs::copy writes the next bytes of the source; after the last, it returns.
CopyWrite(t) ==
  /\ t.pc = "copying"
  /\ LET to == scratch_layer_file_path(t.layer)
         had == IF Exists(to) THEN Len(fs[to]) ELSE 0
         upto == Min(Len(t.src), had + CopyChunk)
     IN /\ fs' = [fs EXCEPT ![to] = SubSeq(t.src, 1, upto)]
        /\ tasks' = IF upto = Len(t.src) THEN Step(t, "mkdir", <<>>)
                    ELSE tasks
  /\ resp' = Idle
  /\ UNCHANGED <<dirs, work_set, lock, req, ops, renames, scheduled>>

TaskCopyWrite == \E t \in BagToSet(tasks) : CopyWrite(t)

\* create_dir_all(dest.parent())
Mkdir(t) ==
  /\ t.pc = "mkdir"
  /\ dirs' = dirs \cup {DirOf(local_layer_file_path(t.layer))}
  /\ tasks' = Step(t, "rename", <<>>)
  /\ resp' = Idle
  /\ UNCHANGED <<fs, work_set, lock, req, ops, renames, scheduled>>

TaskMkdir == \E t \in BagToSet(tasks) : Mkdir(t)

\* The scratch file is copied to its destination and stays where it is.
RenameKeepsScratch(t) ==
  /\ t.pc = "rename"
  /\ LET to == scratch_layer_file_path(t.layer)
         dest == local_layer_file_path(t.layer)
     IN IF Exists(to) /\ DirOf(dest) \in Dirs
        THEN /\ fs' = [fs EXCEPT ![dest] = fs[to]]
             /\ renames' = [renames EXCEPT ![t.layer] = @ + 1]
        ELSE UNCHANGED <<fs, renames>>
  /\ tasks' = Step(t, "release", <<>>)
  /\ resp' = Idle
  /\ UNCHANGED <<dirs, work_set, lock, req, ops, scheduled>>

\* fs::rename(&to, dest)
Rename(t) ==
  /\ t.pc = "rename"
  /\ LET to == scratch_layer_file_path(t.layer)
         dest == local_layer_file_path(t.layer)
     IN IF Exists(to) /\ DirOf(dest) \in Dirs
        THEN /\ fs' = [fs EXCEPT ![dest] = fs[to], ![to] = NoFile]
             /\ renames' = [renames EXCEPT ![t.layer] = @ + 1]
        ELSE UNCHANGED <<fs, renames>>
  /\ tasks' = Step(t, "release", <<>>)
  /\ resp' = Idle
  /\ UNCHANGED <<dirs, work_set, lock, req, ops, scheduled>>

TaskRename == \E t \in BagToSet(tasks) : Rename(t)

\* On an error the task returns at once, as with ?, and never gets to the
\* removal of its name.
FsFailReturns(t) ==
  /\ t.pc \in {"copy", "copying", "mkdir", "rename"}
  /\ tasks' = tasks (-) SetToBag({t})
  /\ resp' = Idle
  /\ UNCHANGED <<fs, dirs, work_set, lock, req, ops, renames, scheduled>>

\* The copy, the create_dir_all or the rename returns an error.
FsFail(t) ==
  /\ t.pc \in {"copy", "copying", "mkdir", "rename"}
  /\ tasks' = Step(t, "release", <<>>)
  /\ resp' = Idle
  /\ UNCHANGED <<fs, dirs, work_set, lock, req, ops, renames, scheduled>>

TaskFsFail == \E t \in BagToSet(tasks) : FsFail(t)

\* The task ends without removing its name from the work set.
ReleaseKeepsName(t) ==
  /\ t.pc = "release"
  /\ lock = <<>>
  /\ work_set' = IF local_layer_file_exists(t.layer) THEN work_set \ {t.layer}
                 ELSE work_set
  /\ tasks' = tasks (-) SetToBag({t})
  /\ resp' = Idle
  /\ UNCHANGED <<fs, dirs, lock, req, ops, renames, scheduled>>

\* work_set.lock().await; work_set.remove(&layer)
Release(t) ==
  /\ t.pc = "release"
  /\ lock = <<>>
  /\ work_set' = work_set \ {t.layer}
  /\ tasks' = tasks (-) SetToBag({t})
  /\ resp' = Idle
  /\ UNCHANGED <<fs, dirs, lock, req, ops, renames, scheduled>>

TaskRelease == \E t \in BagToSet(tasks) : Release(t)

\* POST /cache/<name>: spawn_cache_layer
Cache ==
  /\ ops < MaxOps
  /\ \E n \in Layers : tasks' = tasks (+) Spawned(n, 1)
  /\ ops' = ops + 1
  /\ resp' = Idle
  /\ UNCHANGED <<fs, dirs, work_set, lock, req, renames, scheduled>>

(***************************************************************************)
(* Requests.  A handler is idle or runs one call of the manager; pc is the *)
(* await the call is at.  When a call returns, its handler is idle again   *)
(* and resp holds the answer for that one moment: kind is "ok", "none"     *)
(* (Ok(None)) or "err" (Err, with why).                                    *)
(***************************************************************************)
GetOps == {"get_layer", "get_layer_file", "get_layer_file_range"}

\* A handler takes the next request: the lowest idle one does.
Free(r) ==
  /\ ops < MaxOps
  /\ req[r].pc = "idle"
  /\ \A q \in Reqs : q < r => req[q].pc # "idle"

Answer(q, kind, why) == [q EXCEPT !.pc = "ret", !.kind = kind, !.why = why]

\* The call of handler r returns ans.
Return(r, ans) ==
  /\ req' = [req EXCEPT ![r] = Idle]
  /\ resp' = ans

\* The call of handler r goes on to its next await.
Goto(r, q) ==
  /\ req' = [req EXCEPT ![r] = q]
  /\ resp' = Idle

\* get_layer, get_layer_file and get_layer_file_range all begin with
\* get_layer_reader; which of them the call is, and for which sub-file, shows
\* only in what it does with the reader (Open).
StartGet ==
  \E r \in Reqs, n \in Layers :
    /\ Free(r)
    /\ Goto(r, [Idle EXCEPT !.op = "get", !.pc = "stat_local", !.layer = n])
    /\ ops' = ops + 1
    /\ UNCHANGED <<fs, dirs, work_set, lock, tasks, renames, scheduled>>

\* Every read goes to the primary tier.
TierPathPrimary(q) == primary_layer_file_path(q.layer)

TierPath(q) ==
  IF q.pc \in {"stat_local", "open_local"}
  THEN local_layer_file_path(q.layer)
  ELSE primary_layer_file_path(q.layer)

\* file_reader: tokio::fs::metadata(&path)
Stat(r) ==
  /\ req[r].pc \in {"stat_local", "stat_primary"}
  /\ IF Exists(TierPath(req[r]))
     THEN Goto(r, [req[r] EXCEPT !.size = Len(fs[TierPath(req[r])]),
                                 !.pc = IF @ = "stat_local" THEN "open_local"
                                        ELSE "open_primary"])
     ELSE IF req[r].pc = "stat_local"
     THEN Goto(r, [req[r] EXCEPT !.pc = "stat_primary"])
     ELSE Return(r, Answer(req[r], "none", ""))
  /\ UNCHANGED <<fs, dirs, work_set, lock, tasks, ops, renames, scheduled>>

ReqStat == \E r \in Reqs : Stat(r)

\* get_layer: the size from the stat and a stream over the open file.
get_layer(q, data) ==
  [q EXCEPT !.pc = "ret", !.kind = "ok", !.data = data, !.out = data]

\* get_layer_file: parse the header, seek forward by range.start from the
\* position after the header, and take range.end - range.start bytes.
get_layer_file(q, data) ==
  LET header == ParseHeader(data)
      range == range_for(header, q.tag)
      at == header.pos + range.start
      size == range.end - range.start
  IN IF ~header.ok
     THEN [q EXCEPT !.pc = "ret", !.kind = "err", !.why = "header", !.data = data]
     ELSE IF ~range.some
     THEN [q EXCEPT !.pc = "ret", !.kind = "none", !.data = data]
     ELSE [q EXCEPT !.pc = "ret", !.kind = "ok", !.data = data, !.size = size,
                    !.out = SubSeq(data, at + 1, Min(Len(data), at + size))]

\* The range as the header gives it, the position after the header not added.
get_layer_file_range_relative(q, data) ==
  LET header == ParseHeader(data)
      range == range_for(header, q.tag)
  IN IF ~header.ok
     THEN [q EXCEPT !.pc = "ret", !.kind = "err", !.why = "header", !.data = data]
     ELSE IF ~range.some
     THEN [q EXCEPT !.pc = "ret", !.kind = "none", !.data = data]
     ELSE [q EXCEPT !.pc = "ret", !.kind = "ok", !.data = data,
                    !.lo = range.start, !.hi = range.end]

\* get_layer_file_range: the header-relative range plus the stream position
\* after the header.
get_layer_file_range(q, data) ==
  LET header == ParseHeader(data)
      offset == header.pos
      range == range_for(header, q.tag)
  IN IF ~header.ok
     THEN [q EXCEPT !.pc = "ret", !.kind = "err", !.why = "header", !.data = data]
     ELSE IF ~range.some
     THEN [q EXCEPT !.pc = "ret", !.kind = "none", !.data = data]
     ELSE [q EXCEPT !.pc = "ret", !.kind = "ok", !.data = data,
                    !.lo = range.start + offset, !.hi = range.end + offset]

Served(q, data) ==
  IF q.op = "get_layer" THEN get_layer(q, data)
  ELSE IF q.op = "get_layer_file" THEN get_layer_file(q, data)
  ELSE get_layer_file_range(q, data)

\* How many promotion tasks get_layer_reader spawns on a primary hit:
\* spawn_cache_layer and tokio::spawn.
SpawnsOnHit == 2

\* file_reader: options.open(&path), and what get_layer_reader and its caller
\* do with the reader.
Open(r) ==
  /\ req[r].pc \in {"open_local", "open_primary"}
  /\ IF Exists(TierPath(req[r]))
     THEN /\ \E op \in GetOps, tag \in Tags :
               /\ op = "get_layer" => tag = 1
               /\ Return(r, Served([req[r] EXCEPT !.op = op, !.tag = tag],
                                   fs[TierPath(req[r])]))
          /\ IF req[r].pc = "open_primary"
             THEN /\ tasks' = tasks (+) Spawned(req[r].layer, SpawnsOnHit)
                  /\ scheduled' = scheduled \cup {req[r].layer}
             ELSE UNCHANGED <<tasks, scheduled>>
     ELSE /\ IF req[r].pc = "open_local"
             THEN Goto(r, [req[r] EXCEPT !.pc = "stat_primary"])
             ELSE Return(r, Answer(req[r], "none", ""))
          /\ UNCHANGED <<tasks, scheduled>>
  /\ UNCHANGED <<fs, dirs, work_set, lock, ops, renames>>

ReqOpen == \E r \in Reqs : Open(r)

\* The sub-file tokens a request path may carry; the dictionary knows two.
Tokens == {"known1", "known2", "bogus"}

\* file_name_to_enum: the tag of a token, 0 for None.
file_name_to_enum(token) ==
  IF token = "known1" THEN 1 ELSE IF token = "known2" THEN 2 ELSE 0

\* Service::get: the status of the response for the answer of the manager, or
\* for the error of uri_to_spec.
Status(ans) ==
  IF ans.kind = "ok" THEN 200
  ELSE IF ans.kind = "none" THEN 404
  ELSE 500

\* GET /file/<name>/<token> or /range/<name>/<token> with a token that is not
\* in the dictionary: uri_to_spec answers Err(UnknownLayerFile), and the
\* manager is not called.
GetUnknownFile ==
  \E r \in Reqs, n \in Layers, token \in Tokens,
     op \in {"get_layer_file", "get_layer_file_range"} :
    /\ Free(r)
    /\ file_name_to_enum(token) = 0
    /\ Return(r, Answer([Idle EXCEPT !.op = op, !.layer = n],
                        "err", "UnknownLayerFile"))
    /\ ops' = ops + 1
    /\ UNCHANGED <<fs, dirs, work_set, lock, tasks, renames, scheduled>>

\* A failing metadata or open is taken for NotFound: the local tier falls
\* through to primary, the primary tier answers Absent.
ReqIoErrAsNotFound ==
  \E r \in Reqs :
    /\ req[r].pc \in {"stat_local", "open_local", "stat_primary", "open_primary"}
    /\ IF req[r].pc \in {"stat_local", "open_local"}
       THEN Goto(r, [req[r] EXCEPT !.pc = "stat_primary"])
       ELSE Return(r, Answer(req[r], "none", ""))
    /\ UNCHANGED <<fs, dirs, work_set, lock, tasks, ops, renames, scheduled>>

\* metadata or open fails with an error other than NotFound.
ReqIoErr ==
  \E r \in Reqs :
    /\ req[r].pc \in {"stat_local", "open_local", "stat_primary", "open_primary"}
    /\ Return(r, Answer(req[r], "err", "io"))
    /\ UNCHANGED <<fs, dirs, work_set, lock, tasks, ops, renames, scheduled>>

(***************************************************************************)
(* upload_layer, move_uploaded_outside_layer and move_uploaded_layer.      *)
(***************************************************************************)
\* upload_layer begins: TempFile::new_in(&self.upload_path)
StartUpload ==
  \E r \in Reqs, n \in Layers, body \in Bodies :
    /\ Free(r)
    /\ Goto(r, [Idle EXCEPT !.op = "upload_layer", !.pc = "stream",
                            !.layer = n, !.body = body,
                            !.path = Raw(TRUE, TempPath(r))])
    /\ fs' = [fs EXCEPT ![TempPath(r)] = <<>>]
    /\ ops' = ops + 1
    /\ UNCHANGED <<dirs, work_set, lock, tasks, renames, scheduled>>

\* stream.try_next() yields bytes; file.write_all_buf(&mut bytes)
UploadChunk ==
  \E r \in Reqs :
    /\ req[r].op = "upload_layer" /\ req[r].pc = "stream"
    /\ req[r].body # <<>>
    /\ fs' = [fs EXCEPT ![TempPath(r)] = @ \o Head(req[r].body)]
    /\ Goto(r, [req[r] EXCEPT !.body = Tail(@),
                              !.data = @ \o Head(req[r].body)])
    /\ UNCHANGED <<dirs, work_set, lock, tasks, ops, renames, scheduled>>

\* The stream ends; file.flush()
UploadFlush ==
  \E r \in Reqs :
    /\ req[r].op = "upload_layer" /\ req[r].pc = "stream"
    /\ req[r].body = <<>>
    /\ Goto(r, [req[r] EXCEPT !.pc = "mkdir"])
    /\ UNCHANGED <<fs, dirs, work_set, lock, tasks, ops, renames, scheduled>>

\* Dropping the TempFile deletes the file at its path, if one is still there.
DropTemp(r, F) ==
  IF req[r].op = "upload_layer" THEN [F EXCEPT ![TempPath(r)] = NoFile] ELSE F

\* On an error of the stream, what the temp file holds is moved to primary.
UploadErrMoves ==
  \E r \in Reqs :
    /\ req[r].op = "upload_layer" /\ req[r].pc = "stream"
    /\ Return(r, Answer(req[r], "err", "io"))
    /\ fs' = [fs EXCEPT ![primary_layer_file_path(req[r].layer)] = fs[TempPath(r)],
                        ![TempPath(r)] = NoFile]
    /\ UNCHANGED <<dirs, work_set, lock, tasks, ops, renames, scheduled>>

\* The stream yields an error, or a write or the flush fails.
UploadErr ==
  \E r \in Reqs :
    /\ req[r].op = "upload_layer" /\ req[r].pc = "stream"
    /\ Return(r, Answer(req[r], "err", "io"))
    /\ fs' = DropTemp(r, fs)
    /\ UNCHANGED <<dirs, work_set, lock, tasks, ops, renames, scheduled>>

IsPrefix(a, b) == Len(a) <= Len(b) /\ SubSeq(b, 1, Len(a)) = a

\* The check as a prefix match: the parent may lie anywhere below the upload root.
path_check_prefix(p, D, F) ==
  IF ~HasParent(p) THEN "no_parent"
  ELSE LET parent == canonicalize(Parent(p), D, F)
           upload == canonicalize(Raw(TRUE, upload_path), D, F)
       IN IF ~parent.ok \/ ~upload.ok THEN "canonicalize"
          ELSE IF ~IsPrefix(upload.path, parent.path) THEN "not_in_upload"
          ELSE ""

\* The check on the parent as written, not canonicalized.
path_check_raw(p, D, F) ==
  IF ~HasParent(p) THEN "no_parent"
  ELSE IF ~Parent(p).abs \/ Parent(p).comps # upload_path THEN "not_in_upload"
  ELSE ""

\* The check of move_uploaded_outside_layer: "" when the path is accepted, or
\* the reason it is refused.
path_check(p, D, F) ==
  IF ~HasParent(p) THEN "no_parent"
  ELSE LET parent == canonicalize(Parent(p), D, F)
           upload == canonicalize(Raw(TRUE, upload_path), D, F)
       IN IF ~parent.ok \/ ~upload.ok THEN "canonicalize"
          ELSE IF parent.path # upload.path THEN "not_in_upload"
          ELSE ""

StartMove ==
  \E r \in Reqs, n \in Layers, p \in Candidates :
    /\ Free(r)
    /\ Goto(r, [Idle EXCEPT !.op = "move_outside", !.pc = "check",
                            !.layer = n, !.path = p])
    /\ ops' = ops + 1
    /\ UNCHANGED <<fs, dirs, work_set, lock, tasks, renames, scheduled>>

\* The file is moved first and the path checked afterwards.
MoveThenCheck ==
  \E r \in Reqs :
    /\ req[r].pc = "check"
    /\ LET why == path_check(req[r].path, Dirs, fs)
           from == ResolveFile(req[r].path, Dirs, fs)
           dest == primary_layer_file_path(req[r].layer)
       IN /\ fs' = IF from.ok THEN [fs EXCEPT ![dest] = fs[from.path],
                                              ![from.path] = NoFile]
                   ELSE fs
          /\ IF why = "" THEN Goto(r, [req[r] EXCEPT !.pc = "spawn"])
             ELSE Return(r, Answer(req[r], "err", why))
    /\ UNCHANGED <<dirs, work_set, lock, tasks, ops, renames, scheduled>>

\* move_uploaded_outside_layer up to its call of move_uploaded_layer.
MoveCheck ==
  \E r \in Reqs :
    /\ req[r].pc = "check"
    /\ LET why == path_check(req[r].path, Dirs, fs)
       IN IF why = "" THEN Goto(r, [req[r] EXCEPT !.pc = "mkdir"])
          ELSE Return(r, Answer(req[r], "err", why))
    /\ UNCHANGED <<fs, dirs, work_set, lock, tasks, ops, renames, scheduled>>

\* move_uploaded_layer: create_dir_all(destination_path.parent())
MoveMkdir ==
  \E r \in Reqs :
    /\ req[r].pc = "mkdir"
    /\ dirs' = dirs \cup {DirOf(primary_layer_file_path(req[r].layer))}
    /\ Goto(r, [req[r] EXCEPT !.pc = "rename"])
    /\ UNCHANGED <<fs, work_set, lock, tasks, ops, renames, scheduled>>

\* move_uploaded_layer: fs::rename(file_path, destination_path)
MoveRename ==
  \E r \in Reqs :
    /\ req[r].pc = "rename"
    /\ LET from == ResolveFile(req[r].path, Dirs, fs)
           dest == primary_layer_file_path(req[r].layer)
       IN IF from.ok /\ DirOf(dest) \in Dirs
          THEN /\ fs' = [fs EXCEPT ![dest] = fs[from.path],
                                   ![from.path] = NoFile]
               /\ Goto(r, [req[r] EXCEPT !.pc = "spawn"])
          ELSE /\ fs' = DropTemp(r, fs)
               /\ Return(r, Answer(req[r], "err", "io"))
    /\ UNCHANGED <<dirs, work_set, lock, tasks, ops, renames, scheduled>>

\* create_dir_all or rename fails.
MoveIoErr ==
  \E r \in Reqs :
    /\ req[r].pc \in {"mkdir", "rename"}
    /\ fs' = DropTemp(r, fs)
    /\ Return(r, Answer(req[r], "err", "io"))
    /\ UNCHANGED <<dirs, work_set, lock, tasks, ops, renames, scheduled>>

\* move_uploaded_layer: spawn_cache_layer(layer), then Ok(()) to the caller.
MoveReturn ==
  \E r \in Reqs :
    /\ req[r].pc = "spawn"
    /\ tasks' = tasks (+) Spawned(req[r].layer, 1)
    /\ scheduled' = scheduled \cup {req[r].layer}
    /\ Return(r, Answer(req[r], "ok", ""))
    /\ UNCHANGED <<fs, dirs, work_set, lock, ops, renames>>

\* The runtime drops a task at one of its awaits between the insert into the
\* work set and the removal: nothing of the task runs after that.
Cancel(t) ==
  /\ t.pc \in {"copy", "copying", "mkdir", "rename", "release"}
  /\ tasks' = tasks (-) SetToBag({t})
  /\ resp' = Idle
  /\ UNCHANGED <<fs, dirs, work_set, lock, req, ops, renames, scheduled>>

TaskCancel == \E t \in BagToSet(tasks) : Cancel(t)

\* The future of upload_layer is dropped while the body is not yet drained
\* (the client has gone): nothing of the call runs after that, and the
\* TempFile it owns is dropped with it.
UploadCancel ==
  \E r \in Reqs :
    /\ req[r].op = "upload_layer" /\ req[r].pc = "stream"
    /\ req[r].body # <<>>
    /\ fs' = DropTemp(r, fs)
    /\ req' = [req EXCEPT ![r] = Idle]
    /\ resp' = Idle
    /\ UNCHANGED <<dirs, work_set, lock, tasks, ops, renames, scheduled>>

\* The layers the primary tier may hold when the service starts.
InitRead ==
  /\ \E a \in FullLayers, b \in {NoFile, ArchB} :
       fs = [p \in FilePaths |->
               IF p = primary_layer_file_path(L1) THEN a
               ELSE IF p = primary_layer_file_path(L2) THEN b
               ELSE IF p = SpoolX1 THEN ArchB
               ELSE IF p = SpoolX2 THEN ArchA
               ELSE IF p = Passwd THEN PasswdBytes
               ELSE NoFile]
  /\ dirs = {DirOf(primary_layer_file_path(L1))}
  /\ work_set = {}
  /\ lock = <<>>
  /\ tasks = EmptyBag
  /\ req = [r \in Reqs |-> Idle]
  /\ resp = Idle
  /\ ops = 0
  /\ renames = [n \in Layers |-> 0]
  /\ scheduled = {}

\* The steps of try_copy_layer when every filesystem call succeeds.
TaskOk ==
  \/ TaskLock \/ TaskExists \/ TaskCopyOpen \/ TaskCopyWrite
  \/ TaskMkdir \/ TaskRename \/ TaskRelease

TaskNext == TaskOk \/ TaskExistsErr \/ TaskFsFail

GetOk == StartGet \/ ReqStat \/ ReqOpen

GetNext == GetOk \/ ReqIoErr \/ GetUnknownFile

UploadOk == StartUpload \/ UploadChunk \/ UploadFlush

UploadNext == UploadOk \/ UploadErr

\* move_uploaded_layer
MovedOk == MoveMkdir \/ MoveRename \/ MoveReturn

MovedNext == MovedOk \/ MoveIoErr

\* Every call of the HTTP service, every outcome of the filesystem.
Next == TaskNext \/ Cache \/ GetNext \/ UploadNext \/ MovedNext

Spec == Init /\ [][Next]_vars

\* move_uploaded_outside_layer and the promotions it starts.
NextMove == TaskNext \/ StartMove \/ MoveCheck \/ MovedNext

SpecMove == Init /\ [][NextMove]_vars

\* Reads of layers of every shape.
NextRead == TaskNext \/ GetNext

SpecRead == InitRead /\ [][NextRead]_vars

\* Concurrent reads while every filesystem call succeeds.
NextStampede == TaskOk \/ GetOk

SpecStampede == Init /\ [][NextStampede]_vars

\* Every call while every filesystem call succeeds.
NextOk == TaskOk \/ Cache \/ GetOk \/ UploadOk \/ MovedOk

SpecOk == Init /\ [][NextOk]_vars

\* Every call, with tasks dropped by the runtime.
NextCancel == Next \/ TaskCancel \/ UploadCancel

SpecCancel == Init /\ [][NextCancel]_vars

(***************************************************************************)
(* Properties.                                                             *)
(***************************************************************************)
\* The pcs of a task between its insert into the work set and its removal.
PastAdmission == {"copy", "copying", "mkdir", "rename", "release"}

RECURSIVE Copies(_)
Copies(S) ==
  IF S = {} THEN 0
  ELSE LET t == CHOOSE x \in S : TRUE IN CopiesIn(t, tasks) + Copies(S \ {t})

\* The number of tasks of layer n that are past the admission check.
Promoting(n) ==
  Copies({t \in BagToSet(tasks) : t.layer = n /\ t.pc \in PastAdmission})

\* C1: for every layer name, at most one try_copy_layer task is between its
\* insert into the work set and its removal, whatever the calls and their
\* interleaving.
C1_AtMostOnePromotion == \A n \in Layers : Promoting(n) <= 1

\* A promotion of n is under way while another task for n waits to be admitted.
C1_Witness ==
  \E n \in Layers :
    /\ Promoting(n) = 1
    /\ CopiesIn(Task(n, "start", <<>>), tasks) >= 1

\* C2: a file at primary(n) or local(n) is a complete layer in every state, and
\* a get_layer that is answered streams a complete layer; partial files are
\* under scratch or upload only.
C2_CanonicalFilesComplete ==
  /\ \A n \in Layers :
       /\ Exists(primary_layer_file_path(n)) =>
            fs[primary_layer_file_path(n)] \in FullLayers
       /\ Exists(local_layer_file_path(n)) =>
            fs[local_layer_file_path(n)] \in FullLayers
  /\ (resp.op = "get_layer" /\ resp.kind = "ok") => resp.out \in FullLayers

\* A reader is about to look at local(n) while the copy of n is half done.
C2_Witness ==
  \E n \in Layers, r \in Reqs :
    /\ Exists(scratch_layer_file_path(n))
    /\ fs[scratch_layer_file_path(n)] \notin FullLayers
    /\ fs[scratch_layer_file_path(n)] # <<>>
    /\ req[r].layer = n
    /\ req[r].pc \in {"stat_local", "open_local"}

\* C3: when upload_layer returns success, primary(n) exists and holds exactly
\* the bytes the body stream yielded.
C3_UploadVisibleAtReturn ==
  (resp.op = "upload_layer" /\ resp.kind = "ok") =>
    /\ Exists(primary_layer_file_path(resp.layer))
    /\ fs[primary_layer_file_path(resp.layer)] = resp.data

\* The candidates whose parent directory is the upload root itself, whatever
\* the spelling: written out by hand from the directory tree.
ParentIsUploadRoot ==
  { Raw(TRUE, <<UP, <<"x1">>>>),
    Raw(TRUE, <<UP, DotDot, UP, <<"x1">>>>),
    Raw(TRUE, <<<<"lnk">>, <<"x1">>>>),
    Raw(TRUE, <<UP, <<"missing">>>>),
    Raw(TRUE, <<UP, DotDot>>) }

\* The errors with which move_uploaded_outside_layer refuses a path.
Refusals == {"no_parent", "canonicalize", "not_in_upload"}

HasDotDot(p) == \E i \in 1..Len(p.comps) : p.comps[i] = DotDot

\* A call of move_uploaded_outside_layer that is inside move_uploaded_layer.
Moving(r) ==
  req[r].op = "move_outside" /\ req[r].pc \in {"mkdir", "rename", "spawn"}

\* C4: move_uploaded_outside_layer goes on to move a file, and returns success,
\* only for a path whose parent is exactly the upload root; for every other
\* path it returns an error, and no file outside the upload root is moved.
C4_OnlyFromUploadRoot ==
  /\ \A r \in Reqs : Moving(r) => req[r].path \in ParentIsUploadRoot
  /\ resp.op = "move_outside" =>
       /\ resp.kind = "ok" => resp.path \in ParentIsUploadRoot
       /\ resp.path \notin ParentIsUploadRoot => resp.kind = "err"
  /\ fs[Passwd] = PasswdBytes
  /\ fs[SpoolX2] = ArchA

\* A file handed over through the symlink to the upload root has been moved
\* into primary.
C4_Witness ==
  /\ resp.op = "move_outside" /\ resp.kind = "ok"
  /\ resp.path = Raw(TRUE, <<<<"lnk">>, <<"x1">>>>)
  /\ fs[primary_layer_file_path(resp.layer)] = ArchB
  /\ fs[SpoolX1] = NoFile

\* C5 as stated: every path with a ".." component is refused, and no rename is
\* done for it.
C5_RefusesEveryDotDot ==
  /\ \A r \in Reqs : Moving(r) => ~HasDotDot(req[r].path)
  /\ (resp.op = "move_outside" /\ HasDotDot(resp.path)) => resp.kind = "err"

\* C5 as amended: a path with a ".." component is refused exactly when its
\* parent does not canonicalize to the upload root; one whose parent does is
\* taken on to the move.
C5_RefusesEscapingDotDot ==
  /\ \A r \in Reqs :
       (Moving(r) /\ HasDotDot(req[r].path)) =>
         req[r].path \in ParentIsUploadRoot
  /\ (resp.op = "move_outside" /\ HasDotDot(resp.path)) =>
       (resp.why \in Refusals <=> resp.path \notin ParentIsUploadRoot)

\* /upload/../upload/x1 has been moved into primary.
C5_Witness ==
  /\ resp.op = "move_outside" /\ resp.kind = "ok"
  /\ HasDotDot(resp.path)
  /\ fs[primary_layer_file_path(resp.layer)] = ArchB

\* C6: the step in which move_uploaded_outside_layer refuses a path changes
\* neither the filesystem nor the work set, and spawns no task.
C6_RefusalChangesNothing ==
  [][(resp'.op = "move_outside" /\ resp'.why \in Refusals) =>
       UNCHANGED <<fs, dirs, work_set, lock, tasks>>]_vars

\* /etc/passwd has been refused for a layer whose fan-out directory does not
\* exist; the file is where it was.
C6_Witness ==
  /\ resp.op = "move_outside" /\ resp.why \in Refusals
  /\ resp.path = Raw(TRUE, <<<<"etc">>, <<"passwd">>>>)
  /\ fs[Passwd] = PasswdBytes
  /\ DirOf(primary_layer_file_path(resp.layer)) \notin Dirs
  /\ ~Exists(primary_layer_file_path(resp.layer))

\* The bytes [a, b) of a file, as far as the file has them.
Slice(data, a, b) == SubSeq(data, a + 1, Min(b, Len(data)))

\* C7: what get_layer_file streams for a sub-file of a layer is the slice
\* [a, b) of the layer's bytes and the size it reports is b - a, where [a, b)
\* is the range get_layer_file_range returns for the same layer and sub-file.
C7_FileIsRangeSlice ==
  /\ (resp.op = "get_layer_file" /\ resp.kind = "ok") =>
       LET R == get_layer_file_range(resp, resp.data)
       IN /\ R.kind = "ok"
          /\ resp.out = Slice(resp.data, R.lo, R.hi)
          /\ resp.size = R.hi - R.lo
  /\ (resp.op = "get_layer_file_range" /\ resp.kind = "ok") =>
       LET G == get_layer_file(resp, resp.data)
       IN /\ G.kind = "ok"
          /\ G.out = Slice(resp.data, resp.lo, resp.hi)
          /\ G.size = resp.hi - resp.lo
          /\ resp.data = ArchA => resp.lo = IF resp.tag = 1 THEN 3 ELSE 4
  /\ (resp.op = "get_layer_file" /\ resp.kind = "ok" /\ resp.data = ArchA) =>
       resp.out = IF resp.tag = 1 THEN <<50>> ELSE <<51, 52>>

\* The second sub-file of the layer of two sub-files has been streamed.
C7_Witness ==
  /\ resp.op = "get_layer_file" /\ resp.kind = "ok"
  /\ resp.data = ArchA /\ resp.tag = 2
  /\ resp.out = <<51, 52>> /\ resp.size = 2

\* No task runs, no call is under way.
Quiescent ==
  /\ tasks = EmptyBag
  /\ lock = <<>>
  /\ \A r \in Reqs : req[r].pc = "idle"

\* C8: with L1 on primary only and every filesystem call succeeding, every
\* get_layer of L1 returns the whole layer and, over the whole run, exactly one
\* rename from scratch to local is done.
C8_StampedeOneRename ==
  /\ (resp.op = "get_layer" /\ resp.layer = L1) =>
       /\ resp.kind = "ok"
       /\ resp.out = ArchA
       /\ resp.size = Len(ArchA)
  /\ renames[L1] <= 1
  /\ (Quiescent /\ L1 \in scheduled) => renames[L1] = 1

\* A reader that missed local and found primary is about to spawn two more
\* promotions although local(L1) has been published meanwhile by the
\* promotions of an earlier reader.
C8_Witness ==
  /\ renames[L1] = 1
  /\ Exists(local_layer_file_path(L1))
  /\ \E r \in Reqs : req[r].layer = L1 /\ req[r].pc = "open_primary"

\* C9: once a promotion of a layer has been scheduled by a get_layer served
\* from primary or by a successful upload, and every filesystem call succeeds,
\* the promotions end with local holding the bytes of primary, no scratch file
\* and the name out of the work set.  Stated for L1, which primary holds from
\* the start, so that no copy of it can fail for want of a source.
C9_PromotionCompletes ==
  (Quiescent /\ L1 \in scheduled) =>
    /\ Exists(local_layer_file_path(L1))
    /\ fs[local_layer_file_path(L1)] = fs[primary_layer_file_path(L1)]
    /\ ~Exists(scratch_layer_file_path(L1))
    /\ L1 \notin work_set

\* C10: a name in the work set always has a task that is going to remove it:
\* no task that has ended, in whatever way, leaves its name behind.
C10_WorkSetReleased == \A n \in work_set : Promoting(n) >= 1

\* C11: layers are write-once: no step changes or removes the bytes of a file
\* that exists at a primary layer path.
C11_WriteOnce ==
  [][\A n \in Layers :
       Exists(primary_layer_file_path(n)) =>
         fs'[primary_layer_file_path(n)] = fs[primary_layer_file_path(n)]]_vars

\* The step in which the call of handler r returns.
Returns(r) == req[r].pc # "idle" /\ req'[r].pc = "idle"

\* C12: a read that finds local(n) present does not go on to primary; when it
\* answers, the step spawns no promotion and leaves the work set, the mutex,
\* the files of every tier and of scratch, and the directories unchanged; the
\* answer of get_layer is the size and the bytes of local(n).
C12_LocalHit ==
  [][\A r \in Reqs :
       (/\ req[r].pc \in {"stat_local", "open_local"}
        /\ Exists(local_layer_file_path(req[r].layer))
        /\ req'[r] # req[r]) =>
         /\ req'[r].pc \in {"open_local", "idle"}
         /\ UNCHANGED <<fs, dirs, work_set, lock, tasks, renames, scheduled>>
         /\ (Returns(r) /\ resp'.kind = "ok" /\ resp'.op = "get_layer") =>
              /\ resp'.out = fs[local_layer_file_path(req[r].layer)]
              /\ resp'.size = Len(fs[local_layer_file_path(req[r].layer)])
         /\ (Returns(r) /\ resp'.op = "get_layer") => resp'.kind # "none"]_vars

\* get_layer has answered from local: the layer is local and no read of it
\* has ever hit primary.
C12_Witness ==
  /\ resp.op = "get_layer" /\ resp.kind = "ok"
  /\ Exists(local_layer_file_path(resp.layer))
  /\ resp.layer \notin scheduled
  /\ resp.out = fs[local_layer_file_path(resp.layer)]

\* The stages of a read at which it consults the local tier.
LocalStages == {"stat_local", "open_local"}

\* The stages of a read at which it opens a file it has found.
OpenStages == {"open_local", "open_primary"}

\* The layer file a read at an open stage is about to get, with a header that
\* does not parse.
BadHeaderAhead(r) ==
  /\ req[r].pc \in OpenStages
  /\ Exists(TierPath(req[r]))
  /\ ~ParseHeader(fs[TierPath(req[r])]).ok

\* C13: a read leaves the local tier for primary only when local answers
\* NotFound; it answers Absent only when primary then answers NotFound too, or
\* when the header of the file it opened parses and lacks the sub-file; a file
\* whose header does not parse makes get_layer_file and get_layer_file_range
\* answer an error, and an answered error carries no layer bytes.
C13_AbsentIsNotFailed ==
  [][\A r \in Reqs :
       /\ (req[r].pc \in LocalStages /\ req'[r].pc = "stat_primary") =>
            ~Exists(local_layer_file_path(req[r].layer))
       /\ (Returns(r) /\ req[r].op = "get" /\ resp'.kind = "none") =>
            \/ /\ req[r].pc \in {"stat_primary", "open_primary"}
               /\ ~Exists(primary_layer_file_path(req[r].layer))
            \/ /\ req[r].pc \in OpenStages
               /\ Exists(TierPath(req[r]))
               /\ resp'.op \in {"get_layer_file", "get_layer_file_range"}
               /\ ParseHeader(fs[TierPath(req[r])]).ok
               /\ ~range_for(ParseHeader(fs[TierPath(req[r])]), resp'.tag).some
       /\ (Returns(r) /\ BadHeaderAhead(r)
             /\ resp'.op \in {"get_layer_file", "get_layer_file_range"}) =>
            resp'.kind = "err"
       /\ (Returns(r) /\ req[r].op = "get" /\ resp'.kind = "err") =>
            resp'.out = <<>>]_vars

\* A range request has answered the error of a header that does not parse,
\* for a layer that is on primary, while another read is under way.
C13_Witness ==
  /\ resp.kind = "err" /\ resp.why = "header"
  /\ resp.op = "get_layer_file_range"
  /\ Exists(primary_layer_file_path(resp.layer))
  /\ \E r \in Reqs : req[r].op = "get" /\ req[r].pc = "stat_local"

\* C14: a GET on /file or /range whose sub-file token is not in the dictionary
\* is answered with status 404.
C14_UnknownSubFile404 ==
  resp.why = "UnknownLayerFile" => Status(resp) = 404

\* The files of the primary tier.
PrimaryFiles == [n \in Layers |-> fs[primary_layer_file_path(n)]]

\* The step in which an upload ends while it is still reading its body: the
\* stream has yielded an error, a write or the flush has failed, or the call
\* has been dropped.
UploadEndsInStream(r) ==
  /\ req[r].op = "upload_layer" /\ req[r].pc = "stream"
  /\ req'[r].pc = "idle"

\* C15: an upload that ends while reading its body, by an error or by being
\* dropped, has renamed nothing into primary and spawned no promotion: the
\* step leaves the primary files, the directories, the tasks and the work set
\* as they are, the call does not answer success, and every file on primary
\* is a complete layer.
C15_FailedUploadLeavesPrimary ==
  /\ [][\A r \in Reqs :
          UploadEndsInStream(r) =>
            /\ PrimaryFiles' = PrimaryFiles
            /\ UNCHANGED <<dirs, tasks, work_set, lock, scheduled, renames>>
            /\ resp'.kind # "ok"]_vars
  /\ [](\A n \in Layers : Exists(primary_layer_file_path(n)) =>
                            fs[primary_layer_file_path(n)] \in FullLayers)

\* An upload of a layer that primary does not hold has ended by an error after
\* a part of its body was written.
C15_Witness ==
  /\ resp.op = "upload_layer" /\ resp.kind = "err"
  /\ resp.data # <<>> /\ resp.body # <<>>
  /\ ~Exists(primary_layer_file_path(resp.layer))
  /\ resp.layer \notin scheduled

\* C16: after an upload has ended by an error of its body stream with a part
\* of the body written, its temp file is still in the upload directory.
C16_TempFileRemains ==
  (/\ resp.op = "upload_layer" /\ resp.kind = "err"
   /\ resp.data # <<>> /\ resp.body # <<>>) =>
    Exists(resp.path.comps)

\* The tasks of layer n that are at one of the given awaits.
TasksAt(n, pcs) == {t \in BagToSet(tasks) : t.layer = n /\ t.pc \in pcs}

\* C17: a failed promotion can be tried again.  A name is in the work set
\* exactly while a task is between insert and removal, so an attempt that has
\* finished, failed or not, has freed its name; local(n) exists only after a
\* rename has succeeded, so after failed attempts alone it is absent and the
\* next attempt passes admission; and an attempt that has got to its rename
\* finds its scratch file and the fan-out directory, so that the rename
\* publishes local(n) unless the filesystem fails again.
C17_FailedPromotionRetryable ==
  \A n \in Layers :
    /\ n \in work_set <=> Promoting(n) >= 1
    /\ Exists(local_layer_file_path(n)) <=> renames[n] >= 1
    /\ TasksAt(n, {"copy", "copying", "mkdir", "rename"}) # {} =>
         ~Exists(local_layer_file_path(n))
    /\ TasksAt(n, {"rename"}) # {} =>
         /\ Exists(scratch_layer_file_path(n))
         /\ DirOf(local_layer_file_path(n)) \in Dirs

\* A second attempt has passed admission after a first one failed: it has not
\* yet opened its scratch file, and the scratch file the failed attempt left
\* behind is there.
C17_Witness ==
  \E n \in Layers :
    /\ TasksAt(n, {"copy"}) # {}
    /\ Exists(scratch_layer_file_path(n))
    /\ renames[n] = 0
    /\ n \in work_set

\* C18: once local(n) exists no step removes or changes it, and no step
\* inserts n into the work set, writes scratch(n) or renames into local(n).
C18_LocalPresentSticky ==
  [][\A n \in Layers :
       Exists(local_layer_file_path(n)) =>
         /\ fs'[local_layer_file_path(n)] = fs[local_layer_file_path(n)]
         /\ fs'[scratch_layer_file_path(n)] = fs[scratch_layer_file_path(n)]
         /\ renames'[n] = renames[n]
         /\ n \notin work_set => n \notin work_set'
         /\ TasksAt(n, PastAdmission)' \subseteq TasksAt(n, PastAdmission)]_vars

\* A later try_copy_layer of a layer that is on local is inside the critical
\* region, about to ask whether the local file exists.
C18_Witness ==
  \E n \in Layers :
    /\ Exists(local_layer_file_path(n))
    /\ lock = <<n>>
    /\ n \notin work_set

\* C19: the task that holds the work-set mutex is inside the admission
\* critical region and nowhere else: it is not a task between its insert and
\* its removal (copying, making the directory, renaming), its one step there
\* is the existence check, which writes no file and no directory, and no step
\* of a request handler (an upload reading its stream among them) takes or
\* frees the mutex.
C19_MutexNotHeldAcrossIO ==
  /\ [](lock # <<>> => /\ Promoting(lock[1]) = 0
                       /\ lock[1] \notin work_set)
  /\ [][/\ lock' # lock => UNCHANGED <<fs, dirs, renames, req>>
        /\ lock # <<>> => lock' \in {lock, <<>>}]_vars

\* A task of one layer holds the mutex while a task of the other layer is in
\* the middle of its copy.
C19_Witness ==
  \E n, m \in Layers :
    /\ lock = <<n>>
    /\ TasksAt(m, {"copying"}) # {}
    /\ Exists(scratch_layer_file_path(m))

\* C20: when the existence check inside the critical region fails, the task
\* returns: the step frees the mutex, inserts nothing into the work set,
\* leaves no task of the layer behind that would copy or rename, and writes
\* no file.
C20_CheckErrorMeansExists ==
  [][resp'.why = "try_exists" =>
       /\ lock = <<resp'.layer>>
       /\ lock' = <<>>
       /\ work_set' = work_set
       /\ tasks' = tasks
       /\ UNCHANGED <<fs, dirs, renames>>]_vars

\* The check has failed for a layer that is on primary and not on local: the
\* promotion is given up although there was something to copy.
C20_Witness ==
  /\ resp.why = "try_exists"
  /\ Exists(primary_layer_file_path(resp.layer))
  /\ ~Exists(local_layer_file_path(resp.layer))
  /\ resp.layer \notin work_set
  /\ lock = <<>>

\* The step inserts layer n into the work set.
Inserted(n) == n \notin work_set /\ n \in work_set'

\* C21: whenever a name is inserted into the work set, primary(n) exists and
\* local(n) is absent at that moment.
C21_AdmittedFromPrimaryOnly ==
  [][\A n \in Layers :
       Inserted(n) =>
         /\ Exists(primary_layer_file_path(n))
         /\ ~Exists(local_layer_file_path(n))]_vars

\* C21, as the code has it: whenever a name is inserted into the work set, the
\* inserting task holds the mutex and frees it in that step, and local(n) is
\* absent at that moment; primary(n) exists if a read or an upload has
\* scheduled the promotion, and need not exist otherwise.
C21_AdmittedWhenLocalAbsent ==
  [][\A n \in Layers :
       Inserted(n) =>
         /\ lock = <<n>> /\ lock' = <<>>
         /\ ~Exists(local_layer_file_path(n))
         /\ n \in scheduled => Exists(primary_layer_file_path(n))]_vars

\* A name is in the work set while neither primary nor local holds the layer:
\* the promotion POST /cache asked for was admitted.
C21_Witness ==
  \E n \in Layers :
    /\ n \in work_set
    /\ TasksAt(n, {"copy"}) # {}
    /\ ~Exists(primary_layer_file_path(n))
    /\ ~Exists(local_layer_file_path(n))

\* The step in which the read of handler r is answered from primary.
PrimaryHit(r) ==
  /\ req[r].pc = "open_primary"
  /\ Returns(r)
  /\ resp'.kind # "err"
  /\ Exists(primary_layer_file_path(req[r].layer))

\* C22: a read answered from primary schedules exactly one promotion task of
\* its layer, in the step in which it returns: it waits for no copy and no
\* rename.
C22_OnePromotionPerHit ==
  [][\A r \in Reqs :
       PrimaryHit(r) =>
         /\ tasks' = tasks (+) SetToBag({Task(req[r].layer, "start", <<>>)})
         /\ UNCHANGED <<fs, dirs, work_set, lock, renames>>]_vars

\* C23: scratch(n) exists only while a promotion of n is in flight: whenever n
\* is not in the work set there is no scratch(n).
C23_ScratchOnlyInFlight ==
  \A n \in Layers :
    n \notin work_set => ~Exists(scratch_layer_file_path(n))

\* C23, as the code has it: a promotion that succeeds leaves no scratch file,
\* so there is none once local(n) exists; a scratch file of a name that is not
\* in the work set is what a failed attempt has left behind, no rename of n
\* having succeeded yet; and a scratch file is never there for a layer that
\* primary does not hold.
C23_ScratchGoneOnceLocal ==
  \A n \in Layers :
    /\ Exists(local_layer_file_path(n)) => ~Exists(scratch_layer_file_path(n))
    /\ (Exists(scratch_layer_file_path(n)) /\ n \notin work_set) =>
         renames[n] = 0
    /\ Exists(scratch_layer_file_path(n)) =>
         Exists(primary_layer_file_path(n))

\* Nothing is running and the work set is empty after a promotion that a read
\* or an upload had scheduled failed in its copy: a part of the layer is left
\* on scratch and the layer is not on local.
C23_Witness ==
  /\ tasks = EmptyBag /\ lock = <<>> /\ work_set = {}
  /\ \E n \in Layers :
       /\ Exists(scratch_layer_file_path(n))
       /\ fs[scratch_layer_file_path(n)] # fs[primary_layer_file_path(n)]
       /\ ~Exists(local_layer_file_path(n))
       /\ n \in scheduled

\* C24: the work set holds exactly the names that have a task between its
\* insert and its removal, one task for each; when no task runs and nobody is
\* inside the critical region, the work set is empty.
C24_WorkSetAccounting ==
  /\ \A n \in Layers : IF n \in work_set THEN Promoting(n) = 1
                       ELSE Promoting(n) = 0
  /\ (tasks = EmptyBag /\ lock = <<>>) => work_set = {}

\* Both names are in the work set, each with its one task, one of them
\* already past a failed or finished copy.
C24_Witness ==
  /\ work_set = Layers
  /\ \A n \in Layers : Promoting(n) = 1
  /\ \E n \in Layers : TasksAt(n, {"release"}) # {}

\* C25: a layer that is on local has there the bytes that primary holds for
\* it at that moment, so that a read gets the same bytes from either tier.
C25_CacheCoherence ==
  \A n \in Layers :
    Exists(local_layer_file_path(n)) =>
      fs[local_layer_file_path(n)] = fs[primary_layer_file_path(n)]
=============================================================================
